---- MODULE Spec2Model ----
(***************************************************************************)
(* GrilleCipher.py: the letter grid, the scattered placement of each word  *)
(* (place_word_scattered), the commit of a placement (apply_word_to_grid,  *)
(* forbidden.update) and the main program that places the words in order   *)
(* and then hands grid, masks and word positions to the output functions.  *)
(*                                                                         *)
(* A character is a one-character string, a word a sequence of characters, *)
(* a coordinate a pair <<row, column>>, the grid a function from           *)
(* coordinates to characters.                                              *)
(***************************************************************************)
EXTENDS Naturals, Sequences, FiniteSets

VARIABLES
    GRID_SIZE,       \* configuration: width/height of the grid
    WORDS,           \* configuration: the words to hide (upper-cased by main)
    pc,              \* position of the main program / of the running call
    grid,            \* grid[<<r, c>>]: the letter in row r, column c
    forbidden,       \* coordinates committed by the words placed so far
    masks,           \* one coordinate set per placed word
    word_positions,  \* one coordinate sequence per placed word
    wi,              \* index in WORDS of the word the for loop is at
    word,            \* the word being placed
    attempts,        \* attempt counter of the running call
    positions,       \* cells selected in the running attempt, in draw order
    chosen,          \* the same cells as a set
    r, c,            \* the last row and column drawn
    sorted_positions,\* the value the last call returned
    output           \* what the output functions were handed

vars == <<GRID_SIZE, WORDS, pc, grid, forbidden, masks, word_positions, wi,
          word, attempts, positions, chosen, r, c, sorted_positions, output>>

----------------------------------------------------------------------------
(* Bounds of the model *)

\* largest grid size configured (GRID_SIZE is 10 in the shipped configuration)
MaxSize == 3

\* largest grid size configured in the runs checked for liveness
MaxFairSize == 2

\* the attempt budget of place_word_scattered.  The program sets 5000; the
\* model runs the same loop with a small budget.
max_attempts == 3

\* the fill alphabet of generate_letter_grid, cut down to one letter
letters == {"X"}

\* the configured word lists, before normalisation
WordLists ==
    { << <<"a", "b">>, <<"B", "a">> >>,
      << <<"x", "x", "x">>, <<"a", "b">> >>,
      << <<"a", "b", "x", "a">> >>,
      << <<"a">>, <<"a">> >>,
      << <<"x", "x">>, <<"X", "x">> >> }

----------------------------------------------------------------------------
(* Helpers *)

Range(s) == {s[i] : i \in 1..Len(s)}

Min(a, b) == IF a < b THEN a ELSE b

\* the values random.randint(0, size - 1) can return for some configured size
Draws == 0..((IF MaxSize > MaxFairSize THEN MaxSize ELSE MaxFairSize) - 1)

Cells(size) == (0..(size - 1)) \X (0..(size - 1))

\* str.upper() on the characters the word lists use
UpperChar(ch) ==
    CASE ch = "a" -> "A"
      [] ch = "b" -> "B"
      [] ch = "x" -> "X"
      [] OTHER -> ch

Upper(w) == [i \in 1..Len(w) |-> UpperChar(w[i])]

\* [w.upper() for w in WORDS]
NormalizeWords(ws) == [k \in 1..Len(ws) |-> Upper(ws[k])]

\* a sort key that forgets the column
ReadingLessRowOnly(p, q) == p[1] < q[1]

\* reading order: the sort key (pos[0], pos[1])
ReadingLess(p, q) == p[1] < q[1] \/ (p[1] = q[1] /\ p[2] < q[2])

RECURSIVE Insert(_, _)
Insert(p, s) ==
    IF s = <<>> THEN <<p>>
    ELSE IF ReadingLess(p, Head(s)) THEN <<p>> \o s
    ELSE <<Head(s)>> \o Insert(p, Tail(s))

RECURSIVE SortPositions(_)
\* sorted(positions, key=lambda pos: (pos[0], pos[1]))
SortPositions(ps) ==
    IF ps = <<>> THEN <<>>
    ELSE Insert(Head(ps), SortPositions(Tail(ps)))

\* a filter that looks at the letter of every cell, occupied or not
SelectableStrict(cell, w, g, forb, ch) ==
    /\ cell \notin ch
    /\ g[cell] \in Range(w)

\* the coarse filter of the selection loop: the cell may be selected
Selectable(cell, w, g, forb, ch) ==
    /\ cell \notin ch
    /\ ~(cell \in forb /\ g[cell] \notin Range(w))

\* a validation that refuses every occupied cell
ValidNoReuse(sp, w, g, forb) ==
    \A i \in 1..Min(Len(sp), Len(w)) : sp[i] \notin forb

\* a validation that repeats the coarse filter instead of comparing positions
ValidCoarse(sp, w, g, forb) ==
    \A i \in 1..Min(Len(sp), Len(w)) :
        sp[i] \in forb => g[sp[i]] \in Range(w)

\* the validation loop over zip(sorted_positions, word)
Valid(sp, w, g, forb) ==
    \A i \in 1..Min(Len(sp), Len(w)) :
        sp[i] \in forb => g[sp[i]] = w[i]

\* a budget test that is off by one
ExhaustedEarly(a) == a >= max_attempts

\* if attempts > max_attempts: raise RuntimeError
Exhausted(a) == a > max_attempts

RECURSIVE ApplyFrom(_, _, _, _)
ApplyFrom(g, ps, w, i) ==
    IF i > Min(Len(ps), Len(w)) THEN g
    ELSE ApplyFrom([g EXCEPT ![ps[i]] = w[i]], ps, w, i + 1)

\* a commit that misses the first letter
apply_word_skip_first(g, ps, w) == ApplyFrom(g, ps, w, 2)

\* apply_word_to_grid(grid, positions, word)
apply_word_to_grid(g, ps, w) == ApplyFrom(g, ps, w, 1)

\* an occupancy that is replaced instead of united
ForbiddenReplace(forb, ps) == Range(ps)

\* forbidden.update(positions)
ForbiddenUpdate(forb, ps) == forb \cup Range(ps)

\* a loop that stops one word early
LoopDoneEarly(i, ws) == i >= Len(ws)

\* the for loop over WORDS has run out of words
LoopDone(i, ws) == i > Len(ws)

----------------------------------------------------------------------------
(* The program *)

\* the program before main runs, with a configuration of grid size up to n
InitSized(n) ==
    /\ GRID_SIZE \in 1..n
    /\ WORDS \in WordLists
    /\ pc = "start"
    /\ grid = [cell \in {} |-> "X"]
    /\ forbidden = {}
    /\ masks = <<>>
    /\ word_positions = <<>>
    /\ wi = 1
    /\ word = <<>>
    /\ attempts = 0
    /\ positions = <<>>
    /\ chosen = {}
    /\ r = 0
    /\ c = 0
    /\ sorted_positions = <<>>
    /\ output = <<>>

Init == InitSized(MaxSize)

\* main: grid = generate_letter_grid(GRID_SIZE); forbidden = set(); masks = [];
\* word_positions = []; WORDS = [w.upper() for w in WORDS]
GenerateGrid ==
    /\ pc = "start"
    /\ \E g \in [Cells(GRID_SIZE) -> letters] : grid' = g
    /\ forbidden' = {}
    /\ masks' = <<>>
    /\ word_positions' = <<>>
    /\ WORDS' = NormalizeWords(WORDS)
    /\ wi' = 1
    /\ pc' = "loop"
    /\ UNCHANGED <<GRID_SIZE, word, attempts, positions, chosen, r, c,
                   sorted_positions, output>>

\* for word in WORDS: positions = place_word_scattered(word, GRID_SIZE, grid,
\* forbidden) -- entry of the call: attempts = 0
CallPlace ==
    /\ pc = "loop"
    /\ ~LoopDone(wi, WORDS)
    /\ word' = WORDS[wi]
    /\ attempts' = 0
    /\ pc' = "attempt"
    /\ UNCHANGED <<GRID_SIZE, WORDS, grid, forbidden, masks, word_positions,
                   wi, positions, chosen, r, c, sorted_positions, output>>

\* while True: attempts += 1; if attempts > max_attempts: raise RuntimeError;
\* positions = []; chosen = set()
BeginAttempt ==
    /\ pc = "attempt"
    /\ attempts' = attempts + 1
    /\ IF Exhausted(attempts + 1)
       THEN /\ pc' = "failed"
            /\ UNCHANGED <<positions, chosen>>
       ELSE /\ pc' = "select"
            /\ positions' = <<>>
            /\ chosen' = {}
    /\ UNCHANGED <<GRID_SIZE, WORDS, grid, forbidden, masks, word_positions,
                   wi, word, r, c, sorted_positions, output>>

\* a selection loop that assigns the letter to the cell as soon as it is drawn
SampleAssigning(rr, cc) ==
    /\ pc = "select"
    /\ Len(positions) < Len(word)
    /\ rr \in 0..(GRID_SIZE - 1)
    /\ cc \in 0..(GRID_SIZE - 1)
    /\ r' = rr
    /\ c' = cc
    /\ IF Selectable(<<rr, cc>>, word, grid, forbidden, chosen)
       THEN /\ chosen' = chosen \cup {<<rr, cc>>}
            /\ positions' = Append(positions, <<rr, cc>>)
            /\ grid' = [grid EXCEPT ![<<rr, cc>>] = word[Len(positions) + 1]]
       ELSE UNCHANGED <<chosen, positions, grid>>
    /\ UNCHANGED <<GRID_SIZE, WORDS, pc, forbidden, masks,
                   word_positions, wi, word, attempts, sorted_positions,
                   output>>

\* one turn of: while len(positions) < len(word): r = randint; c = randint;
\* continue if chosen; continue if occupied by a letter not in the word;
\* chosen.add((r, c)); positions.append((r, c))
Sample(rr, cc) ==
    /\ pc = "select"
    /\ Len(positions) < Len(word)
    /\ rr \in 0..(GRID_SIZE - 1)
    /\ cc \in 0..(GRID_SIZE - 1)
    /\ r' = rr
    /\ c' = cc
    /\ IF Selectable(<<rr, cc>>, word, grid, forbidden, chosen)
       THEN /\ chosen' = chosen \cup {<<rr, cc>>}
            /\ positions' = Append(positions, <<rr, cc>>)
       ELSE UNCHANGED <<chosen, positions>>
    /\ UNCHANGED <<GRID_SIZE, WORDS, pc, grid, forbidden, masks,
                   word_positions, wi, word, attempts, sorted_positions,
                   output>>

\* the selection is complete: sort, validate, return or try again
Validate ==
    /\ pc = "select"
    /\ ~(Len(positions) < Len(word))
    /\ IF Valid(SortPositions(positions), word, grid, forbidden)
       THEN /\ sorted_positions' = SortPositions(positions)
            /\ pc' = "returned"
       ELSE /\ pc' = "attempt"
            /\ UNCHANGED sorted_positions
    /\ UNCHANGED <<GRID_SIZE, WORDS, grid, forbidden, masks, word_positions,
                   wi, word, attempts, positions, chosen, r, c, output>>

\* main, after the call returned: apply_word_to_grid; forbidden.update;
\* mask = set(positions); masks.append(mask); word_positions.append(positions)
Commit ==
    /\ pc = "returned"
    /\ grid' = apply_word_to_grid(grid, sorted_positions, word)
    /\ forbidden' = ForbiddenUpdate(forbidden, sorted_positions)
    /\ masks' = Append(masks, Range(sorted_positions))
    /\ word_positions' = Append(word_positions, sorted_positions)
    /\ wi' = wi + 1
    /\ pc' = "loop"
    /\ UNCHANGED <<GRID_SIZE, WORDS, word, attempts, positions, chosen, r, c,
                   sorted_positions, output>>

\* main, after the loop: the save_* functions are handed grid, masks,
\* word_positions and WORDS
SaveOutputs ==
    /\ pc = "loop"
    /\ LoopDone(wi, WORDS)
    /\ output' = << [grid |-> grid, masks |-> masks,
                     word_positions |-> word_positions, words |-> WORDS] >>
    /\ pc' = "done"
    /\ UNCHANGED <<GRID_SIZE, WORDS, grid, forbidden, masks, word_positions,
                   wi, word, attempts, positions, chosen, r, c,
                   sorted_positions>>

Next ==
    \/ GenerateGrid
    \/ CallPlace
    \/ BeginAttempt
    \/ \E rr \in Draws, cc \in Draws : Sample(rr, cc)
    \/ Validate
    \/ Commit
    \/ SaveOutputs

Spec == Init /\ [][Next]_vars

\* The program always takes its next step, and the random source is fair:
\* while the selection loop runs, every coordinate keeps being drawn.
Fairness ==
    /\ WF_vars(GenerateGrid)
    /\ WF_vars(CallPlace)
    /\ WF_vars(BeginAttempt)
    /\ WF_vars(Validate)
    /\ WF_vars(Commit)
    /\ WF_vars(SaveOutputs)
    /\ \A rr \in Draws, cc \in Draws : WF_vars(Sample(rr, cc))

FairInit == InitSized(MaxFairSize)

FairSpec == FairInit /\ [][Next]_vars /\ Fairness

----------------------------------------------------------------------------
(* Shorthands of the properties *)

\* a call of place_word_scattered is running or has just ended
InCall == pc \in {"attempt", "select", "returned", "failed"}

\* a call has just been entered
Entered == pc = "attempt" /\ attempts = 0

\* every coordinate of the grid in reading order
AllCellsInOrder(size) ==
    [i \in 1..(size * size) |-> <<(i - 1) \div size, (i - 1) % size>>]

----------------------------------------------------------------------------
(* C1 *)

\* C1 (coverage): for every word placed so far, reading the current grid at
\* the word's stored coordinates, in their stored order, gives exactly the
\* word's characters; early words keep this after later words are committed.
C1_Coverage ==
    \A k \in 1..Len(word_positions) :
        /\ Len(word_positions[k]) = Len(WORDS[k])
        /\ \A i \in 1..Len(word_positions[k]) :
               grid[word_positions[k][i]] = WORDS[k][i]

\* two different words are committed and share a cell
C1_Witness ==
    /\ Len(word_positions) = 2
    /\ WORDS[1] # WORDS[2]
    /\ masks[1] \cap masks[2] # {}

----------------------------------------------------------------------------
(* C2 *)

\* what a returned selection says about the cells that are already occupied
ReturnedConsistent ==
    pc = "returned" =>
        \A i \in 1..Len(sorted_positions) :
            sorted_positions[i] \in forbidden =>
                grid[sorted_positions[i]] = word[i]

\* no step changes the letter of an occupied cell
OccupiedLettersKept ==
    \A cell \in forbidden : grid'[cell] = grid[cell]

\* no coordinate is claimed by two words with different letters
SharedCellsAgree ==
    \A k1 \in 1..Len(word_positions), k2 \in 1..Len(word_positions) :
        \A i \in 1..Len(word_positions[k1]), j \in 1..Len(word_positions[k2]) :
            word_positions[k1][i] = word_positions[k2][j] =>
                WORDS[k1][i] = WORDS[k2][j]

\* C2 (consistency under overlap): whenever place_word_scattered returns,
\* every returned coordinate that is already occupied holds the letter the
\* word assigns to it; so the commit never changes the letter of an occupied
\* cell, and no coordinate is shared by two words that need different letters.
C2_Consistency ==
    /\ []ReturnedConsistent
    /\ [][OccupiedLettersKept]_vars
    /\ []SharedCellsAgree

\* a second, different word has returned a selection that reuses a cell
C2_Witness ==
    /\ pc = "returned"
    /\ wi = 2
    /\ word # WORDS[1]
    /\ Range(sorted_positions) \cap forbidden # {}

----------------------------------------------------------------------------
(* C3 *)

\* C3: a returned result has exactly len(word) coordinates, each with row and
\* column in [0, size), strictly increasing in reading order (row, then
\* column), hence pairwise distinct.
C3_ResultShape ==
    pc = "returned" =>
        /\ Len(sorted_positions) = Len(word)
        /\ \A i \in 1..Len(sorted_positions) :
               /\ sorted_positions[i][1] \in 0..(GRID_SIZE - 1)
               /\ sorted_positions[i][2] \in 0..(GRID_SIZE - 1)
        /\ \A i \in 1..Len(sorted_positions), j \in 1..Len(sorted_positions) :
               i < j =>
                   \/ sorted_positions[i][1] < sorted_positions[j][1]
                   \/ /\ sorted_positions[i][1] = sorted_positions[j][1]
                      /\ sorted_positions[i][2] < sorted_positions[j][2]

\* a result of several cells that were not drawn in reading order
C3_Witness ==
    /\ pc = "returned"
    /\ Len(word) >= 2
    /\ positions # sorted_positions

----------------------------------------------------------------------------
(* C4 *)

\* C4 (bounded looping): every call with a non-empty word of at most
\* size*size characters eventually ends, under fair sampling, by returning a
\* result or by signalling failure.
C4_BoundedLooping ==
    (Entered /\ Len(word) >= 1 /\ Len(word) <= GRID_SIZE * GRID_SIZE)
        ~> (pc \in {"returned", "failed"})

----------------------------------------------------------------------------
(* C5 *)

\* the counter never passes the budget by more than the failing increment
BudgetRespected ==
    /\ attempts <= max_attempts + 1
    /\ (pc \in {"select", "returned"} => attempts \in 1..max_attempts)
    /\ (pc = "failed" => attempts = max_attempts + 1)

\* the counter starts at 0 with the call and counts one per attempt; a new
\* attempt follows only a complete, sorted selection that failed validation;
\* the failure comes on entering attempt max_attempts + 1 and hands back
\* nothing
BudgetStep ==
    /\ attempts' # attempts =>
           \/ pc = "loop" /\ attempts' = 0
           \/ pc = "attempt" /\ attempts' = attempts + 1
    /\ (pc' = "attempt" /\ pc # "attempt") =>
           \/ pc = "loop"
           \/ /\ pc = "select"
              /\ Len(positions) = Len(word)
              /\ attempts' = attempts
              /\ \E i \in 1..Len(word) :
                     /\ SortPositions(positions)[i] \in forbidden
                     /\ grid[SortPositions(positions)[i]] # word[i]
    /\ (pc' = "failed" /\ pc # "failed") =>
           /\ pc = "attempt"
           /\ attempts = max_attempts
           /\ attempts' = max_attempts + 1
           /\ UNCHANGED <<sorted_positions, word_positions, masks, grid,
                          forbidden>>

\* C5 (attempt budget): place_word_scattered makes at most max_attempts
\* complete attempts; when all of them failed validation it signals failure
\* on entering attempt max_attempts + 1 and returns no coordinate sequence;
\* it never signals failure before max_attempts attempts were discarded.
C5_AttemptBudget ==
    /\ []BudgetRespected
    /\ [][BudgetStep]_vars

\* the failure was signalled
C5_Witness ==
    /\ pc = "failed"
    /\ attempts = max_attempts + 1

----------------------------------------------------------------------------
(* C6 *)

\* C6: a word longer than size*size is rejected before any placement
\* attempt: no attempt of such a call ever samples a coordinate.
C6_RejectedBeforeSampling ==
    ~(/\ Len(word) > GRID_SIZE * GRID_SIZE
      /\ pc = "select"
      /\ chosen # {})

----------------------------------------------------------------------------
(* C8 *)

\* the occupancy only grows, and the commit adds exactly the returned cells
OccupancyStep ==
    /\ forbidden \subseteq forbidden'
    /\ (pc = "returned" /\ pc' = "loop") =>
           forbidden' = forbidden \cup Range(sorted_positions)
    /\ ~(pc = "returned" /\ pc' = "loop") => forbidden' = forbidden

\* C8 (monotonic occupancy): forbidden only grows; after word k is committed
\* it equals the occupancy after word k-1 united with word k's returned
\* coordinates, and no step removes a coordinate from it.
C8_MonotonicOccupancy == [][OccupancyStep]_vars

\* two words are committed and the second added cells to the occupancy
C8_Witness ==
    /\ Len(masks) = 2
    /\ masks[2] \ masks[1] # {}
    /\ forbidden = masks[1] \cup masks[2]

----------------------------------------------------------------------------
(* C9 *)

\* the first call, on an empty occupancy, with a word that fills the grid
BoundaryCall ==
    /\ InCall
    /\ forbidden = {}
    /\ Len(word) = GRID_SIZE * GRID_SIZE

\* C9 (boundary liveness): with an empty occupancy set, placing a word of
\* exactly size*size characters eventually returns every grid coordinate in
\* reading order, and never signals failure.
C9_BoundaryLiveness ==
    /\ (Entered /\ BoundaryCall)
           ~> (pc = "returned" /\
               sorted_positions = AllCellsInOrder(GRID_SIZE))
    /\ [](BoundaryCall => pc # "failed")

\* a word of size*size > 1 characters was placed on the empty grid
C9_Witness ==
    /\ pc = "returned"
    /\ forbidden = {}
    /\ GRID_SIZE >= 2
    /\ Len(word) = GRID_SIZE * GRID_SIZE
    /\ sorted_positions = AllCellsInOrder(GRID_SIZE)

----------------------------------------------------------------------------
(* C10 *)

\* the words are placed strictly in list order, none skipped
PlacedInOrder ==
    /\ pc # "start" => Len(word_positions) = wi - 1
    /\ Len(masks) = Len(word_positions)
    /\ InCall => (wi <= Len(WORDS) /\ word = WORDS[wi])

\* when the output functions run, every word has its committed placement
OutputComplete ==
    (pc = "done" \/ output # <<>>) =>
        /\ Len(word_positions) = Len(WORDS)
        /\ Len(masks) = Len(WORDS)
        /\ \A k \in 1..Len(WORDS) :
               /\ Len(word_positions[k]) = Len(WORDS[k])
               /\ masks[k] = Range(word_positions[k])
               /\ \A i \in 1..Len(WORDS[k]) :
                      grid[word_positions[k][i]] = WORDS[k][i]

\* after a failure nothing more is placed and nothing is output
FailureFatal ==
    pc = "failed" =>
        /\ pc' = "failed"
        /\ UNCHANGED <<wi, word_positions, masks, grid, forbidden, output>>

\* C10: words are placed strictly in list order; once a placement fails no
\* later word is placed and no output step runs; whenever an output step
\* runs, every configured word has a committed placement, and masks and
\* word_positions have one entry per word in word-list order.
C10_FailureFatal ==
    /\ []PlacedInOrder
    /\ []OutputComplete
    /\ [][FailureFatal]_vars
    /\ [](pc = "failed" => output = <<>>)

\* the second word failed after the first was committed
C10_Witness ==
    /\ pc = "failed"
    /\ wi = 2
    /\ Len(word_positions) = 1
    /\ output = <<>>

----------------------------------------------------------------------------
(* C11 *)

\* the occupancy is empty, or every occupied cell holds a letter equal to
\* every letter of the word
NothingToMismatch ==
    \/ forbidden = {}
    \/ \A cell \in forbidden : \A i \in 1..Len(word) : grid[cell] = word[i]

\* in such a call the counter never passes 1 and no failure is signalled
FirstAttemptOnly ==
    (InCall /\ NothingToMismatch) => (attempts <= 1 /\ pc # "failed")

\* in such a call the complete selection is not discarded: the step that
\* leaves the selection loop returns it, sorted, in attempt 1
FirstSelectionReturned ==
    (pc = "select" /\ NothingToMismatch /\ pc' # "select") =>
        /\ pc' = "returned"
        /\ attempts = 1
        /\ attempts' = 1
        /\ Range(sorted_positions') = Range(positions)
        /\ Len(sorted_positions') = Len(word)

\* C11 (first-attempt success): when the occupancy set is empty, or every
\* occupied cell already holds a letter equal to every letter of the word,
\* the first complete selection of len(word) distinct coordinates passes
\* validation whatever was drawn, and no attempt is discarded.
C11_FirstAttemptSuccess ==
    /\ []FirstAttemptOnly
    /\ [][FirstSelectionReturned]_vars

\* a word of two equal letters returned in attempt 1 on cells that were
\* already occupied by that letter
C11_Witness ==
    /\ pc = "returned"
    /\ attempts = 1
    /\ Len(word) >= 2
    /\ forbidden # {}
    /\ NothingToMismatch
    /\ Range(sorted_positions) \cap forbidden # {}

----------------------------------------------------------------------------
(* C12 *)

\* a step of the commit: the call has returned and main goes on
CommitStep == pc = "returned" /\ pc' = "loop"

\* the steps of a call leave grid and occupancy alone, on every path
SearchFrame ==
    (pc \in {"attempt", "select", "failed"}) =>
        (grid' = grid /\ forbidden' = forbidden)

\* only the commit changes them, and only at the returned coordinates
CommitFrame ==
    (pc # "start" /\ (grid' # grid \/ forbidden' # forbidden)) =>
        /\ CommitStep
        /\ \A cell \in Cells(GRID_SIZE) \ Range(sorted_positions) :
               /\ grid'[cell] = grid[cell]
               /\ (cell \in forbidden') = (cell \in forbidden)

RECURSIVE UnionOf(_)
\* the union of a sequence of sets
UnionOf(ms) == IF ms = <<>> THEN {} ELSE Head(ms) \cup UnionOf(Tail(ms))

\* during a call and after its failure or return, the occupancy is what the
\* commits so far made it and every other cell holds its fill letter
AsTheCallBegan ==
    InCall =>
        /\ forbidden = UnionOf(masks)
        /\ \A cell \in Cells(GRID_SIZE) \ forbidden : grid[cell] \in letters

\* C12 (frame of the search): place_word_scattered never modifies the grid or
\* the occupancy set, on a successful return, a discarded attempt or a
\* failure; after a failure both are as they were when the call began; only
\* the commit of main changes them, and only at the returned coordinates.
C12_SearchFrame ==
    /\ [][SearchFrame]_vars
    /\ [][CommitFrame]_vars
    /\ []AsTheCallBegan

\* a call failed after attempts were discarded, with a word committed before
C12_Witness ==
    /\ pc = "failed"
    /\ attempts > 1
    /\ forbidden # {}
    /\ forbidden = masks[1]

====
